---- MODULE Spec2Model ----
(***************************************************************************)
(* Model of hackday_bot: the comment loop of Bot.run (bot.py) driving the  *)
(* membership ledger Members (members.py; bot.py:107-173 holds the older   *)
(* copy of the same class without the interested roster).                  *)
(*                                                                         *)
(* A text is a sequence of symbols: "!" , a whitespace symbol, one of the  *)
(* five command keywords, or another run of word characters.  The wiki     *)
(* page is a sequence of lines: a heading '# [title](url)' is "#" followed *)
(* by the pieces its inner text splits into at '](' (<<"#", title, url>>   *)
(* when the title holds no such separator),                                *)
(* <<"*", user>> for '* /u/user', <<"*I", user>> for                       *)
(* '* [INTERESTED] /u/user'.  self.projects is a Python dict: a sequence   *)
(* of entries in insertion order.                                          *)
(***************************************************************************)
EXTENDS Integers, Sequences, FiniteSets, TLC

\* ---------------------------------------------------------------- bounds
MaxDeliveries == 2
MaxFaults == 1
MaxRuns == 2

\* ---------------------------------------------------------------- inputs
Ids == {"c1", "c2"}
Users == {"alice", "bob"}
Urls == {"u1", "u2"}
Titles == {"A", "B", "A](B"}
Whitespace == {" ", "\n"}

\* Python's order on the strings used (str.__lt__ on these values).
Ordered == <<"A", "A](B", "B", "alice", "bob", "c1", "c2", "c3", "u1", "u2">>
Rank(s) == CHOOSE i \in 1..Len(Ordered) : Ordered[i] = s

RECURSIVE Sorted(_)
Sorted(S) ==
    IF S = {} THEN <<>>
    ELSE LET m == CHOOSE x \in S : \A y \in S : Rank(x) <= Rank(y)
         IN  <<m>> \o Sorted(S \ {m})

Range(s) == {s[i] : i \in 1..Len(s)}

\* ---------------------------------------------------------------- parser
AVAILABLE_COMMANDS == {"help", "interested", "join", "leave", "uninterested"}

MatchesNoLookahead(body, i, k) ==
    /\ body[i] = "!"
    /\ (i = 1 \/ body[i - 1] \in Whitespace)
    /\ i + 1 <= Len(body)
    /\ body[i + 1] = k

\* One match of COMMAND_RE at symbol i: (?:\A|\s)!(keyword)(?=\s|\Z)
Matches(body, i, k) ==
    /\ body[i] = "!"
    /\ (i = 1 \/ body[i - 1] \in Whitespace)
    /\ i + 1 <= Len(body)
    /\ body[i + 1] = k
    /\ (i + 1 = Len(body) \/ body[i + 2] \in Whitespace)

\* set(COMMAND_RE.findall(comment.body))
FindAll(body) ==
    {k \in AVAILABLE_COMMANDS : \E i \in 1..Len(body) : Matches(body, i, k)}

\* ---------------------------------------------------------------- replies
MSG_MULTI == "Please provide only a single command."
MSG_HELP == "command|description"
MSG_INTERESTED == "soon I will record your interest"
MSG_UNINTERESTED == "soon I will record your uninterest"
MSG_ALREADY == "You have already joined this project."
MSG_JOINED == "You have successfully joined the project."
MSG_NOT_JOINED == "You have not joined this project."
MSG_REMOVED == "You have been removed from the project."
MSG_ALREADY_INTERESTED == "You have already expressed interest in this project."
MSG_INTEREST_OK == "You have successfully expressed your interest in this project."
MSG_NONE == ""

\* ---------------------------------------------------------------- ledger
NewEntry(url, title) ==
    [url |-> url, title |-> title, assignees |-> {}, interested |-> {}]

HasUrl(projects, url) == \E i \in 1..Len(projects) : projects[i].url = url
IndexOf(projects, url) == CHOOSE i \in 1..Len(projects) : projects[i].url = url

SetDefaultOverwritesTitle(projects, url, title) ==
    IF HasUrl(projects, url)
    THEN [projects EXCEPT ![IndexOf(projects, url)].title = title]
    ELSE Append(projects, NewEntry(url, title))

\* dict.setdefault(url, {...}) followed by the lookup of the entry
SetDefault(projects, url, title) ==
    IF HasUrl(projects, url) THEN projects
    ELSE Append(projects, NewEntry(url, title))

\* Members._comment_info
CommentInfo(projects, comment) ==
    LET p == SetDefault(projects, comment.link_url, comment.link_title)
    IN  [projects |-> p, index |-> IndexOf(p, comment.link_url),
         user |-> comment.author]

\* projects[url] = {...}: a new key is appended, an old key keeps its place
Assign(projects, url, title) ==
    IF HasUrl(projects, url)
    THEN [projects EXCEPT ![IndexOf(projects, url)] = NewEntry(url, title)]
    ELSE Append(projects, NewEntry(url, title))

\* Members._load_projects: one pass over the lines, in order
RECURSIVE LoadLines(_, _, _)
LoadLines(lines, projects, url) ==
    IF lines = <<>> THEN projects
    ELSE LET line == Head(lines)
             rest == Tail(lines)
         IN  IF line[1] = "#"
             THEN LoadLines(rest, Assign(projects, line[3], line[2]), line[3])
             ELSE IF line[1] = "*I"
             THEN LoadLines(rest,
                            [projects EXCEPT ![IndexOf(projects, url)].interested
                                                 = @ \cup {line[2]}], url)
             ELSE LoadLines(rest,
                            [projects EXCEPT ![IndexOf(projects, url)].assignees
                                                 = @ \cup {line[2]}], url)

LoadProjects(content) == LoadLines(content, <<>>, "None")

\* title, url = line[3:-1].split(']('): ValueError unless there are two pieces
LoadRaises(content) ==
    \E i \in 1..Len(content) : content[i][1] = "#" /\ Len(content[i]) # 3

\* sorted(..., key=title): stable, equal titles keep insertion order
InsertByTitle(sorted, e) ==
    SelectSeq(sorted, LAMBDA x : Rank(x.title) <= Rank(e.title))
        \o <<e>> \o
    SelectSeq(sorted, LAMBDA x : Rank(x.title) > Rank(e.title))

RECURSIVE SortedByTitle(_)
SortedByTitle(projects) ==
    IF projects = <<>> THEN <<>>
    ELSE InsertByTitle(SortedByTitle(SubSeq(projects, 1, Len(projects) - 1)),
                       projects[Len(projects)])

\* title.split('](') for the titles used
TitleParts(title) == IF title = "A](B" THEN <<"A", "B">> ELSE <<title>>

MemberLines(marker, members) ==
    LET s == Sorted(members) IN [i \in 1..Len(s) |-> <<marker, s[i]>>]

EntryLinesUnpruned(data) ==
    <<  <<"#">> \o TitleParts(data.title) \o <<data.url>>  >>
        \o MemberLines("*", data.assignees)
        \o MemberLines("*I", data.interested)

EntryLines(data) ==
    IF data.assignees = {} /\ data.interested = {} THEN <<>>
    ELSE <<  <<"#">> \o TitleParts(data.title) \o <<data.url>>  >>
             \o MemberLines("*", data.assignees)
             \o MemberLines("*I", data.interested)

RECURSIVE RenderAll(_)
RenderAll(entries) ==
    IF entries = <<>> THEN <<>>
    ELSE EntryLines(Head(entries)) \o RenderAll(Tail(entries))

\* Members._save_projects: the text handed to page.edit
SaveProjects(projects) == RenderAll(SortedByTitle(projects))

MembersAddUnchecked(projects, comment) ==
    LET info == CommentInfo(projects, comment)
        p == info.projects
        i == info.index
    IN  [projects |-> [p EXCEPT ![i].assignees = @ \cup {info.user}],
         msg |-> MSG_JOINED, save |-> TRUE]

\* Members.add up to (not including) the call of _save_projects
MembersAdd(projects, comment) ==
    LET info == CommentInfo(projects, comment)
        p == info.projects
        i == info.index
    IN  IF info.user \in p[i].assignees
        THEN [projects |-> p, msg |-> MSG_ALREADY, save |-> FALSE]
        ELSE [projects |-> [p EXCEPT ![i].assignees = @ \cup {info.user}],
              msg |-> MSG_JOINED, save |-> TRUE]

MembersRemoveUnchecked(projects, comment) ==
    LET info == CommentInfo(projects, comment)
        p == info.projects
        i == info.index
    IN  [projects |-> [p EXCEPT ![i].assignees = @ \ {info.user}],
         msg |-> MSG_REMOVED, save |-> TRUE]

\* Members.remove up to (not including) the call of _save_projects
MembersRemove(projects, comment) ==
    LET info == CommentInfo(projects, comment)
        p == info.projects
        i == info.index
    IN  IF info.user \notin p[i].assignees
        THEN [projects |-> p, msg |-> MSG_NOT_JOINED, save |-> FALSE]
        ELSE [projects |-> [p EXCEPT ![i].assignees = @ \ {info.user}],
              msg |-> MSG_REMOVED, save |-> TRUE]

MembersAddInterestJoins(projects, comment) ==
    LET info == CommentInfo(projects, comment)
        p == info.projects
        i == info.index
    IN  IF info.user \in p[i].interested
        THEN [projects |-> p, msg |-> MSG_ALREADY_INTERESTED, save |-> FALSE]
        ELSE [projects |-> [p EXCEPT ![i].interested = @ \cup {info.user},
                                     ![i].assignees = @ \cup {info.user}],
              msg |-> MSG_INTEREST_OK, save |-> TRUE]

\* Members.add_interest up to (not including) the call of _save_projects
MembersAddInterest(projects, comment) ==
    LET info == CommentInfo(projects, comment)
        p == info.projects
        i == info.index
    IN  IF info.user \in p[i].interested
        THEN [projects |-> p, msg |-> MSG_ALREADY_INTERESTED, save |-> FALSE]
        ELSE [projects |-> [p EXCEPT ![i].interested = @ \cup {info.user}],
              msg |-> MSG_INTEREST_OK, save |-> TRUE]

\* ---------------------------------------------------------------- seen file
\* The seen-comment file: absent, not parseable as JSON, valid JSON that is
\* not iterable (null, a number), or a JSON array of ids.
SeenFiles ==
    { [kind |-> "missing", ids |-> <<>>],
      [kind |-> "badjson", ids |-> <<>>],
      [kind |-> "scalar",  ids |-> <<>>],
      [kind |-> "array",   ids |-> <<"c1">>] }

\* Bot._load_seen_comments: ok = FALSE when the call raises
LoadSeenComments(file) ==
    IF file.kind = "array" THEN [ok |-> TRUE, data |-> Range(file.ids)]
    ELSE IF file.kind \in {"missing", "badjson"} THEN [ok |-> TRUE, data |-> {}]
    ELSE [ok |-> FALSE, data |-> {}]

\* Bot._save_seen_comments: json.dump(sorted(self._seen_comments), fp)
SaveSeenComments(seen) == [kind |-> "array", ids |-> Sorted(seen)]

\* ---------------------------------------------------------------- wiki page
InitialPages ==
    { [exists |-> FALSE, content |-> <<>>],
      [exists |-> TRUE,  content |-> <<>>],
      [exists |-> TRUE,  content |-> << <<"#", "B", "u1">>, <<"*", "alice">> >>] }

MembersInitNoCreate(pg) ==
    IF pg.exists
    THEN [projects |-> LoadProjects(pg.content),
          page |-> [exists |-> TRUE,
                    content |-> SaveProjects(LoadProjects(pg.content))]]
    ELSE [projects |-> <<>>, page |-> pg]

\* Members.__init__: load (or create on NotFound), then _save_projects('test')
MembersInit(pg) ==
    LET loaded_projects == IF pg.exists THEN LoadProjects(pg.content) ELSE <<>>
    IN  [projects |-> loaded_projects,
         page |-> [exists |-> TRUE, content |-> SaveProjects(loaded_projects)]]

\* ---------------------------------------------------------------- comments
Bodies ==
    { <<"!", "join">>,
      <<"!", "leave">>,
      <<"!", "help">>,
      <<"!", "join", " ", "!", "leave">>,
      <<"!", "join", "ing">> }

\* The submissions comments are attached to: (link_url, link_title).  Two
\* urls share a title, and one url is seen under two titles.
Links == {<<"u1", "A">>, <<"u1", "B">>, <<"u2", "A">>}

\* The comments the stream can carry.  Only join and leave read the author,
\* the link url and the link title, so the other bodies come with one value.
Contents ==
    {c \in [body : Bodies, author : Users, link_url : Urls, link_title : Titles] :
        /\ <<c.link_url, c.link_title>> \in Links
        /\ \/ FindAll(c.body) \in {{"join"}, {"leave"}}
           \/ (c.author = "alice" /\ c.link_url = "u1" /\ c.link_title = "A")}

NoContent == [body |-> <<>>, author |-> "", link_url |-> "", link_title |-> ""]

MkComment(id, c) ==
    [id |-> id, body |-> c.body, author |-> c.author,
     link_url |-> c.link_url, link_title |-> c.link_title]

NoComment == MkComment("", NoContent)

VARIABLES
    pc,             \* position of the process in Bot.run
    running,        \* the local variable running of Bot.run
    cur,            \* the comment of the current loop iteration
    msg,            \* the message the command handler is about to reply
    seen_comments,  \* Bot._seen_comments
    seen_file,      \* content of the seen-comment file
    projects,       \* Members.projects
    page,           \* the remote wiki page 'projects'
    exit_code,      \* value returned by run (-1: not returned)
    known,          \* content of every comment id the stream has delivered
    delivered,      \* number of deliveries of the stream
    faults,         \* number of PrawcoreExceptions raised
    runs,           \* number of Bot instances constructed
    interrupted,    \* a KeyboardInterrupt was raised in this run
    replies,        \* per id, the replies posted in this run
    edits,          \* number of page.edit calls
    saves,          \* number of writes of the seen-comment file in this run
    handle_count,   \* per id, calls of _handle_comment in this run
    handled_ok,     \* ids whose _handle_comment returned normally in this run
    changes,        \* per id, handlings that changed a roster in this run
    loaded,         \* the seen set loaded at construction
    pre,            \* ledger, page and counters when cur was delivered
    prev_seen,      \* the seen set the previous run flushed on its clean shutdown
    origin,         \* the page a Members under direct test was constructed from
    log,            \* the operations called on that Members, in order
    text,           \* a text handed to the command parser
    found           \* what the parser returned for it

vars == <<pc, running, cur, msg, seen_comments, seen_file, projects, page,
          exit_code, known, delivered, faults, runs, interrupted, replies,
          edits, saves, handle_count, handled_ok, changes, loaded, pre,
          prev_seen, origin, log, text, found>>

\* The variables of the direct tests of Members and of the parser; the loop
\* of Bot.run leaves them alone.
aux == <<origin, log, text, found>>
NoPage == [exists |-> FALSE, content |-> <<>>]

Snapshot == [projects |-> projects, page |-> page, edits |-> edits,
             replies |-> replies]

\* Bot.__init__ given the file and the page it finds
Construct(file, pg) ==
    LET seen == LoadSeenComments(file)
        mem == MembersInit(pg)
    IN  IF seen.ok
        THEN [pc |-> "stream", seen |-> seen.data,
              projects |-> mem.projects, page |-> mem.page, edits |-> 1]
        ELSE [pc |-> "initfail", seen |-> {},
              projects |-> <<>>, page |-> pg, edits |-> 0]

Init ==
    \E file \in SeenFiles, pg \in InitialPages :
        LET b == Construct(file, pg) IN
        /\ pc = b.pc
        /\ running = TRUE
        /\ cur = NoComment
        /\ msg = MSG_NONE
        /\ seen_comments = b.seen
        /\ seen_file = file
        /\ projects = b.projects
        /\ page = b.page
        /\ exit_code = -1
        /\ known = [id \in Ids |-> NoContent]
        /\ delivered = 0
        /\ faults = 0
        /\ runs = 1
        /\ interrupted = FALSE
        /\ replies = [id \in Ids |-> <<>>]
        /\ edits = b.edits
        /\ saves = 0
        /\ handle_count = [id \in Ids |-> 0]
        /\ handled_ok = {}
        /\ changes = [id \in Ids |-> 0]
        /\ loaded = b.seen
        /\ pre = [projects |-> b.projects, page |-> b.page, edits |-> b.edits,
                  replies |-> [id \in Ids |-> <<>>]]
        /\ prev_seen = {}
        /\ origin = NoPage /\ log = <<>> /\ text = <<>> /\ found = {}

\* ---------------------------------------------------------------- Bot.run
SkipSeenNever(comment) == FALSE

\* if comment.id in self._seen_comments: continue
SkipSeen(comment) == comment.id \in seen_comments

\* The ids the stream can deliver: a comment delivered before (redelivery,
\* with the same content) or the next new one.
NextNew(id) ==
    /\ known[id] = NoContent
    /\ \A j \in Ids : Rank(j) < Rank(id) => known[j] # NoContent

\* for comment in self.subreddit.stream.comments(): ... (one item)
Deliver ==
    /\ UNCHANGED aux
    /\ pc = "stream"
    /\ delivered < MaxDeliveries
    /\ \E id \in Ids :
        \E c \in Contents :
            /\ \/ known[id] = c
               \/ NextNew(id)
            /\ known' = [known EXCEPT ![id] = c]
            /\ cur' = MkComment(id, c)
            /\ pc' = IF SkipSeen(MkComment(id, c)) THEN "stream" ELSE "handle"
    /\ delivered' = delivered + 1
    /\ pre' = Snapshot
    /\ UNCHANGED <<running, msg, seen_comments, seen_file, projects, page,
                   exit_code, faults, runs, interrupted, replies, edits, saves,
                   handle_count, handled_ok, changes, loaded, prev_seen>>

DispatchFirstOfMany(comment) ==
    LET commands == FindAll(comment.body) IN
    IF Cardinality(commands) >= 1
    THEN LET command == CHOOSE k \in commands : TRUE IN
         IF command = "join"
         THEN LET r == MembersAdd(projects, comment) IN
              [projects |-> r.projects, msg |-> r.msg,
               next |-> IF r.save THEN "edit" ELSE "reply"]
         ELSE IF command = "leave"
         THEN LET r == MembersRemove(projects, comment) IN
              [projects |-> r.projects, msg |-> r.msg,
               next |-> IF r.save THEN "edit" ELSE "reply"]
         ELSE [projects |-> projects, msg |-> MSG_HELP, next |-> "reply"]
    ELSE [projects |-> projects, msg |-> MSG_NONE, next |-> "mark"]

DispatchReplyFirst(comment) ==
    LET commands == FindAll(comment.body) IN
    IF Cardinality(commands) > 1
    THEN [projects |-> projects, msg |-> MSG_MULTI, next |-> "reply"]
    ELSE IF Cardinality(commands) = 1
    THEN LET command == CHOOSE k \in commands : TRUE IN
         CASE command = "help" ->
                [projects |-> projects, msg |-> MSG_HELP, next |-> "reply"]
           [] command = "interested" ->
                [projects |-> projects, msg |-> MSG_INTERESTED, next |-> "reply"]
           [] command = "uninterested" ->
                [projects |-> projects, msg |-> MSG_UNINTERESTED, next |-> "reply"]
           [] command = "join" ->
                LET r == MembersAdd(projects, comment) IN
                [projects |-> r.projects, msg |-> r.msg,
                 next |-> "reply"]
           [] command = "leave" ->
                LET r == MembersRemove(projects, comment) IN
                [projects |-> r.projects, msg |-> r.msg,
                 next |-> "reply"]
    ELSE [projects |-> projects, msg |-> MSG_NONE, next |-> "mark"]

DispatchRecordsInterest(comment) ==
    LET commands == FindAll(comment.body) IN
    IF Cardinality(commands) > 1
    THEN [projects |-> projects, msg |-> MSG_MULTI, next |-> "reply"]
    ELSE IF Cardinality(commands) = 1
    THEN LET command == CHOOSE k \in commands : TRUE IN
         CASE command = "help" ->
                [projects |-> projects, msg |-> MSG_HELP, next |-> "reply"]
           [] command = "interested" ->
                LET r == MembersAddInterest(projects, comment) IN
                [projects |-> r.projects, msg |-> MSG_INTERESTED,
                 next |-> IF r.save THEN "edit" ELSE "reply"]
           [] command = "uninterested" ->
                [projects |-> projects, msg |-> MSG_UNINTERESTED, next |-> "reply"]
           [] command = "join" ->
                LET r == MembersAdd(projects, comment) IN
                [projects |-> r.projects, msg |-> r.msg,
                 next |-> IF r.save THEN "edit" ELSE "reply"]
           [] command = "leave" ->
                LET r == MembersRemove(projects, comment) IN
                [projects |-> r.projects, msg |-> r.msg,
                 next |-> IF r.save THEN "edit" ELSE "reply"]
    ELSE [projects |-> projects, msg |-> MSG_NONE, next |-> "mark"]

\* What _handle_comment does up to its first call of the outside world
Dispatch(comment) ==
    LET commands == FindAll(comment.body) IN
    IF Cardinality(commands) > 1
    THEN [projects |-> projects, msg |-> MSG_MULTI, next |-> "reply"]
    ELSE IF Cardinality(commands) = 1
    THEN LET command == CHOOSE k \in commands : TRUE IN
         CASE command = "help" ->
                [projects |-> projects, msg |-> MSG_HELP, next |-> "reply"]
           [] command = "interested" ->
                [projects |-> projects, msg |-> MSG_INTERESTED, next |-> "reply"]
           [] command = "uninterested" ->
                [projects |-> projects, msg |-> MSG_UNINTERESTED, next |-> "reply"]
           [] command = "join" ->
                LET r == MembersAdd(projects, comment) IN
                [projects |-> r.projects, msg |-> r.msg,
                 next |-> IF r.save THEN "edit" ELSE "reply"]
           [] command = "leave" ->
                LET r == MembersRemove(projects, comment) IN
                [projects |-> r.projects, msg |-> r.msg,
                 next |-> IF r.save THEN "edit" ELSE "reply"]
    ELSE [projects |-> projects, msg |-> MSG_NONE, next |-> "mark"]

\* self._handle_comment(comment): parse and dispatch
HandleComment ==
    /\ UNCHANGED aux
    /\ pc = "handle"
    /\ LET d == Dispatch(cur) IN
        /\ projects' = d.projects
        /\ msg' = d.msg
        /\ pc' = d.next
        /\ changes' = [changes EXCEPT ![cur.id] =
                          IF d.next = "edit" THEN @ + 1 ELSE @]
        /\ handled_ok' = IF d.next = "mark" THEN handled_ok \cup {cur.id}
                         ELSE handled_ok
    /\ handle_count' = [handle_count EXCEPT ![cur.id] = @ + 1]
    /\ UNCHANGED <<running, cur, seen_comments, seen_file, page, exit_code,
                   known, delivered, faults, runs, interrupted, replies, edits,
                   saves, loaded, pre, prev_seen>>

\* self._page.edit('\n'.join(lines), reason=reason) succeeds
PageEdit ==
    /\ UNCHANGED aux
    /\ pc = "edit"
    /\ page' = [exists |-> TRUE, content |-> SaveProjects(projects)]
    /\ edits' = edits + 1
    /\ pc' = "reply"
    /\ UNCHANGED <<running, cur, msg, seen_comments, seen_file, projects,
                   exit_code, known, delivered, faults, runs, interrupted,
                   replies, saves, handle_count, handled_ok, changes, loaded,
                   pre, prev_seen>>

\* comment.reply(message) succeeds and _handle_comment returns
Reply ==
    /\ UNCHANGED aux
    /\ pc = "reply"
    /\ replies' = [replies EXCEPT ![cur.id] = Append(@, msg)]
    /\ handled_ok' = handled_ok \cup {cur.id}
    /\ pc' = "mark"
    /\ UNCHANGED <<running, cur, msg, seen_comments, seen_file, projects, page,
                   exit_code, known, delivered, faults, runs, interrupted,
                   edits, saves, handle_count, changes, loaded, pre, prev_seen>>

MarkSeenBeforeReply ==
    /\ UNCHANGED aux
    /\ pc \in {"mark", "reply"}
    /\ seen_comments' = seen_comments \cup {cur.id}
    /\ pc' = IF pc = "mark" THEN "stream" ELSE pc
    /\ seen_comments' # seen_comments
    /\ UNCHANGED <<running, cur, msg, seen_file, projects, page, exit_code,
                   known, delivered, faults, runs, interrupted, replies, edits,
                   saves, handle_count, handled_ok, changes, loaded, pre,
                   prev_seen>>

\* self._seen_comments.add(comment.id)
MarkSeen ==
    /\ UNCHANGED aux
    /\ pc = "mark"
    /\ seen_comments' = seen_comments \cup {cur.id}
    /\ pc' = "stream"
    /\ UNCHANGED <<running, cur, msg, seen_file, projects, page, exit_code,
                   known, delivered, faults, runs, interrupted, replies, edits,
                   saves, handle_count, handled_ok, changes, loaded, pre,
                   prev_seen>>

OnPrawcoreExceptionStop ==
    /\ pc' = "sleep"
    /\ running' = FALSE

\* except PrawcoreException: logger.exception('run loop'); time.sleep(10)
OnPrawcoreException ==
    /\ pc' = "sleep"
    /\ running' = running

\* The stream, page.edit or comment.reply raises a PrawcoreException
Fault ==
    /\ UNCHANGED aux
    /\ pc \in {"stream", "edit", "reply"}
    /\ faults < MaxFaults
    /\ faults' = faults + 1
    /\ OnPrawcoreException
    /\ UNCHANGED <<cur, msg, seen_comments, seen_file, projects, page,
                   exit_code, known, delivered, runs, interrupted, replies,
                   edits, saves, handle_count, handled_ok, changes, loaded,
                   pre, prev_seen>>

ResumeLeavesLoop ==
    /\ UNCHANGED aux
    /\ pc = "sleep"
    /\ pc' = "save"
    /\ UNCHANGED <<running, cur, msg, seen_comments, seen_file, projects, page,
                   exit_code, known, delivered, faults, runs, interrupted,
                   replies, edits, saves, handle_count, handled_ok, changes,
                   loaded, pre, prev_seen>>

\* time.sleep(10) returns; while running: the stream is opened again
Resume ==
    /\ UNCHANGED aux
    /\ pc = "sleep"
    /\ pc' = IF running THEN "stream" ELSE "save"
    /\ UNCHANGED <<running, cur, msg, seen_comments, seen_file, projects, page,
                   exit_code, known, delivered, faults, runs, interrupted,
                   replies, edits, saves, handle_count, handled_ok, changes,
                   loaded, pre, prev_seen>>

\* Where a KeyboardInterrupt raised at position p is caught: inside the try
\* body by 'except KeyboardInterrupt' (running = False, the loop ends); inside
\* the 'except PrawcoreException' handler by nothing, so it leaves run.
OnKeyboardInterrupt(p) ==
    IF p \in {"stream", "handle", "edit", "reply", "mark"}
    THEN [pc |-> "save", running |-> FALSE]
    ELSE [pc |-> "crashed", running |-> running]

\* The operator presses Ctrl-C while run is in its loop
Interrupt ==
    /\ UNCHANGED aux
    /\ pc \in {"stream", "handle", "edit", "reply", "mark", "sleep"}
    /\ pc' = OnKeyboardInterrupt(pc).pc
    /\ running' = OnKeyboardInterrupt(pc).running
    /\ interrupted' = TRUE
    /\ UNCHANGED <<cur, msg, seen_comments, seen_file, projects, page,
                   exit_code, known, delivered, faults, runs, replies, edits,
                   saves, handle_count, handled_ok, changes, loaded, pre,
                   prev_seen>>

\* self._save_seen_comments(); return 0
SaveAndReturn ==
    /\ UNCHANGED aux
    /\ pc = "save"
    /\ seen_file' = SaveSeenComments(seen_comments)
    /\ saves' = saves + 1
    /\ exit_code' = 0
    /\ pc' = "done"
    /\ UNCHANGED <<running, cur, msg, seen_comments, projects, page, known,
                   delivered, faults, runs, interrupted, replies, edits,
                   handle_count, handled_ok, changes, loaded, pre, prev_seen>>

\* A new Bot is constructed for the same subreddit and run is called
Restart ==
    /\ UNCHANGED aux
    /\ pc \in {"done", "crashed"}
    /\ runs < MaxRuns
    /\ LET b == Construct(seen_file, page) IN
        /\ pc' = b.pc
        /\ seen_comments' = b.seen
        /\ loaded' = b.seen
        /\ projects' = b.projects
        /\ page' = b.page
        /\ edits' = edits + b.edits
        /\ pre' = [projects |-> b.projects, page |-> b.page,
                   edits |-> edits + b.edits,
                   replies |-> [id \in Ids |-> <<>>]]
    /\ prev_seen' = IF pc = "done" THEN seen_comments ELSE {}
    /\ runs' = runs + 1
    /\ running' = TRUE
    /\ cur' = NoComment
    /\ msg' = MSG_NONE
    /\ exit_code' = -1
    /\ interrupted' = FALSE
    /\ replies' = [id \in Ids |-> <<>>]
    /\ saves' = 0
    /\ handle_count' = [id \in Ids |-> 0]
    /\ handled_ok' = {}
    /\ changes' = [id \in Ids |-> 0]
    /\ UNCHANGED <<seen_file, known, delivered, faults>>

Next ==
    \/ Deliver
    \/ HandleComment
    \/ PageEdit
    \/ Reply
    \/ MarkSeen
    \/ Fault
    \/ Resume
    \/ Interrupt
    \/ SaveAndReturn
    \/ Restart

Spec == Init /\ [][Next]_vars

\* The loop without the operator: no KeyboardInterrupt, so no return and no
\* second Bot.  Every step of the process itself is taken when it can be; the
\* stream and the faults are the environment's.
NextLive ==
    \/ Deliver
    \/ HandleComment
    \/ PageEdit
    \/ Reply
    \/ MarkSeen
    \/ Fault
    \/ Resume

LiveSpec ==
    /\ Init
    /\ [][NextLive]_vars
    /\ WF_vars(HandleComment)
    /\ WF_vars(PageEdit)
    /\ WF_vars(Reply)
    /\ WF_vars(MarkSeen)
    /\ WF_vars(Resume)

\* ---------------------------------------------------------------- commands
\* The loop fed with comments of every command, without the operator.
CommandBodies ==
    Bodies \cup { <<"!", "interested">>, <<"!", "uninterested">> }

CommandContents ==
    Contents \cup
    [body : { <<"!", "interested">>, <<"!", "uninterested">> },
     author : {"alice"}, link_url : {"u1"}, link_title : {"A"}]

\* for comment in self.subreddit.stream.comments(): ... (one item)
DeliverCommand ==
    /\ UNCHANGED aux
    /\ pc = "stream"
    /\ delivered < MaxDeliveries
    /\ \E id \in Ids :
        \E c \in CommandContents :
            /\ \/ known[id] = c
               \/ NextNew(id)
            /\ known' = [known EXCEPT ![id] = c]
            /\ cur' = MkComment(id, c)
            /\ pc' = IF SkipSeen(MkComment(id, c)) THEN "stream" ELSE "handle"
    /\ delivered' = delivered + 1
    /\ pre' = Snapshot
    /\ UNCHANGED <<running, msg, seen_comments, seen_file, projects, page,
                   exit_code, faults, runs, interrupted, replies, edits, saves,
                   handle_count, handled_ok, changes, loaded, prev_seen>>

CommandNext ==
    \/ DeliverCommand
    \/ HandleComment
    \/ PageEdit
    \/ Reply
    \/ MarkSeen
    \/ Fault
    \/ Resume

CommandSpec == Init /\ [][CommandNext]_vars

\* ---------------------------------------------------------------- Members
\* Members driven directly: constructed from a page, then a sequence of
\* add, remove and add_interest calls, each with its _save_projects.
MaxOps == 3

LedgerLinks == {<<"u1", "A">>, <<"u2", "A">>, <<"u2", "A](B">>}

LedgerComments ==
    {MkComment("c1", c) :
        c \in {x \in [body : {<<>>}, author : Users, link_url : Urls,
                       link_title : Titles] :
                    <<x.link_url, x.link_title>> \in LedgerLinks}}

\* The bot's own variables while Members or the parser is driven directly
BotIdle ==
    /\ running = TRUE /\ seen_comments = {} /\ exit_code = -1
    /\ seen_file = [kind |-> "missing", ids |-> <<>>]
    /\ known = [id \in Ids |-> NoContent]
    /\ delivered = 0 /\ faults = 0 /\ runs = 1 /\ interrupted = FALSE
    /\ replies = [id \in Ids |-> <<>>]
    /\ saves = 0
    /\ handle_count = [id \in Ids |-> 0]
    /\ handled_ok = {}
    /\ changes = [id \in Ids |-> 0]
    /\ loaded = {} /\ prev_seen = {}

botvars == <<running, seen_comments, exit_code, seen_file, known, delivered,
             faults, runs, interrupted, replies, saves, handle_count,
             handled_ok, changes, loaded, prev_seen>>

\* Members(subreddit) for each page the wiki may hold
LedgerInit ==
    \E pg \in InitialPages :
        LET mem == MembersInit(pg) IN
        /\ pc = "ledger"
        /\ origin = pg
        /\ projects = mem.projects
        /\ page = mem.page
        /\ edits = 1
        /\ pre = [projects |-> mem.projects, page |-> mem.page, edits |-> 1,
                  replies |-> [id \in Ids |-> <<>>]]
        /\ cur = NoComment /\ msg = MSG_NONE
        /\ log = <<>> /\ text = <<>> /\ found = {}
        /\ BotIdle

\* The method of Members a call names
ApplyOp(ps, op) ==
    IF op.kind = "add" THEN MembersAdd(ps, op.comment)
    ELSE IF op.kind = "remove" THEN MembersRemove(ps, op.comment)
    ELSE MembersAddInterest(ps, op.comment)

\* self._save_projects(reason) when the method reaches it
PageAfter(pg, r) ==
    IF r.save THEN [exists |-> TRUE, content |-> SaveProjects(r.projects)]
    ELSE pg

\* Members.add(comment), with the page write it ends with
Add ==
    /\ pc = "ledger"
    /\ Len(log) < MaxOps
    /\ \E c \in LedgerComments :
          LET r == MembersAdd(projects, c) IN
          /\ projects' = r.projects
          /\ msg' = r.msg
          /\ page' = PageAfter(page, r)
          /\ edits' = IF r.save THEN edits + 1 ELSE edits
          /\ cur' = c
          /\ log' = Append(log, [kind |-> "add", comment |-> c])
    /\ pre' = Snapshot
    /\ UNCHANGED <<pc, origin, text, found>>
    /\ UNCHANGED botvars

\* Members.remove(comment), with the page write it ends with
Remove ==
    /\ pc = "ledger"
    /\ Len(log) < MaxOps
    /\ \E c \in LedgerComments :
          LET r == MembersRemove(projects, c) IN
          /\ projects' = r.projects
          /\ msg' = r.msg
          /\ page' = PageAfter(page, r)
          /\ edits' = IF r.save THEN edits + 1 ELSE edits
          /\ cur' = c
          /\ log' = Append(log, [kind |-> "remove", comment |-> c])
    /\ pre' = Snapshot
    /\ UNCHANGED <<pc, origin, text, found>>
    /\ UNCHANGED botvars

\* Members.add_interest(comment), with the page write it ends with
AddInterest ==
    /\ pc = "ledger"
    /\ Len(log) < MaxOps
    /\ \E c \in LedgerComments :
          LET r == MembersAddInterest(projects, c) IN
          /\ projects' = r.projects
          /\ msg' = r.msg
          /\ page' = PageAfter(page, r)
          /\ edits' = IF r.save THEN edits + 1 ELSE edits
          /\ cur' = c
          /\ log' = Append(log, [kind |-> "interest", comment |-> c])
    /\ pre' = Snapshot
    /\ UNCHANGED <<pc, origin, text, found>>
    /\ UNCHANGED botvars

LedgerNext ==
    \/ Add
    \/ Remove
    \/ AddInterest

LedgerSpec == LedgerInit /\ [][LedgerNext]_vars

\* ---------------------------------------------------------------- parser
\* The parser driven directly on every text of up to MaxTextLen symbols.
\* "ing" stands for any run of word characters that is no keyword and forms
\* none with its neighbours.
MaxTextLen == 5

TextSymbols ==
    {"!", " ", "\n", "join", "leave", "interested", "uninterested", "ing"}

Texts == UNION {[1..n -> TextSymbols] : n \in 0..MaxTextLen}

ParserInit ==
    /\ pc = "text"
    /\ text \in Texts
    /\ found = {}
    /\ origin = NoPage /\ log = <<>>
    /\ projects = <<>> /\ page = NoPage /\ edits = 0
    /\ pre = [projects |-> <<>>, page |-> NoPage, edits |-> 0,
              replies |-> [id \in Ids |-> <<>>]]
    /\ cur = NoComment /\ msg = MSG_NONE
    /\ BotIdle

\* commands = set(COMMAND_RE.findall(comment.body))
Parse ==
    /\ pc = "text"
    /\ found' = FindAll(text)
    /\ pc' = "parsed"
    /\ UNCHANGED <<text, origin, log, projects, page, edits, pre, cur, msg>>
    /\ UNCHANGED botvars

ParserNext == Parse

ParserSpec == ParserInit /\ [][ParserNext]_vars

\* ---------------------------------------------------------------- properties
InLoop == {"stream", "handle", "edit", "reply", "mark", "sleep"}
Stopped == {"save", "done", "crashed"}

Assignees(ps, url) ==
    IF HasUrl(ps, url) THEN ps[IndexOf(ps, url)].assignees ELSE {}

IsMulti(comment) == Cardinality(FindAll(comment.body)) > 1
IsJoin(comment) == FindAll(comment.body) = {"join"}
IsLeave(comment) == FindAll(comment.body) = {"leave"}

\* C1: a delivered comment whose id is in the seen set is skipped: the loop
\* stays at the stream, and no step of the run ever parses, answers or applies
\* a comment whose id is in the seen set (ledger, page and edit count are
\* untouched by the delivery).
C1_DuplicateGuard ==
    [][ /\ (delivered' # delivered /\ cur'.id \in seen_comments)
            => (pc' = "stream"
                /\ UNCHANGED <<projects, page, edits, replies, seen_comments>>)
        /\ runs' = runs =>
            \A id \in seen_comments \cap Ids :
                /\ handle_count'[id] = handle_count[id]
                /\ replies'[id] = replies[id]
                /\ changes'[id] = changes[id] ]_vars

\* A comment handled and marked seen in this run was delivered again and
\* skipped: two deliveries, one handling.
C1_Witness ==
    /\ pc = "stream" /\ runs = 1 /\ faults = 0 /\ ~interrupted
    /\ delivered = 2
    /\ cur.id \in seen_comments \ loaded
    /\ handle_count[cur.id] = 1
    /\ \A id \in Ids \ {cur.id} : handle_count[id] = 0

\* C2: after an operator interrupt the loop has stopped (running is False
\* and run is flushing or has returned), and when run has returned the file
\* holds the full seen set and the exit code is 0.
C2_GracefulTermination ==
    interrupted =>
        /\ pc \in {"save", "done"}
        /\ ~running
        /\ pc = "done" =>
              /\ seen_file = [kind |-> "array", ids |-> Sorted(seen_comments)]
              /\ exit_code = 0

\* C3: whenever the loop is between comments the remote page holds the
\* serialization of the in-memory ledger.
C3_PageIsFunctionOfLedger ==
    pc = "stream" => (page.exists /\ page.content = SaveProjects(projects))

\* C4: within one run every comment id gets at most one reply and changes the
\* rosters at most once, and when the loop is between comments and every
\* comment that changed a roster is marked seen, the page holds the ledger.
C4_RecoveryWithoutLoss ==
    /\ \A id \in Ids : Len(replies[id]) <= 1 /\ changes[id] <= 1
    /\ (pc = "stream" /\ \A id \in Ids : changes[id] > 0 => id \in seen_comments)
          => page.content = SaveProjects(projects)

\* C5: every id in the seen set was loaded at startup or belongs to a comment
\* whose _handle_comment returned normally in this run; while a comment is
\* being handled, and after its handling raised, its id is not in the set.
C5_SeenOnlyAfterHandling ==
    /\ seen_comments \subseteq (loaded \cup handled_ok)
    /\ pc \in {"handle", "edit", "reply"} => cur.id \notin seen_comments

\* A comment whose handling raised was delivered again, handled again and
\* only then marked seen.
C5_Witness ==
    \E id \in seen_comments \ loaded :
        handle_count[id] = 2 /\ faults >= 1 /\ runs = 1

C8_SeenSurvivesRestart ==
    /\ pc # "initfail"
    /\ saves = (IF pc = "done" THEN 1 ELSE 0)
    /\ pc = "done" =>
          seen_file = [kind |-> "array", ids |-> Sorted(seen_comments)]
    /\ prev_seen \subseteq loaded

\* C9: a comment with more than one distinct command gets the 'single
\* command' reply and nothing else: no page write is started, ledger, page
\* and edit count are as they were at delivery, and after the reply the reply
\* log has grown by exactly that message.
C9_MultipleCommands ==
    (IsMulti(cur) /\ pc \in {"edit", "reply", "mark"}) =>
        /\ pc # "edit"
        /\ msg = MSG_MULTI
        /\ projects = pre.projects /\ page = pre.page /\ edits = pre.edits
        /\ pc = "reply" => replies = pre.replies
        /\ pc = "mark" =>
              replies = [pre.replies EXCEPT ![cur.id] = Append(@, MSG_MULTI)]

C9_Witness ==
    IsMulti(cur) /\ pc = "mark" /\ replies[cur.id] = <<MSG_MULTI>>

JoinComments == {MkComment("c1", c) : c \in {x \in Contents : IsJoin(x)}}

\* C10: join twice in a row: for every user and topic the second
\* Members.add returns 'already joined', asks for no page write and leaves
\* the ledger as the first left it, with the user in the roster; and in the
\* loop a join by a user who was in the roster at delivery is answered
\* 'already joined' with ledger, page and edit count unchanged.
C10_JoinIdempotent ==
    /\ \A c \in JoinComments :
          LET first == MembersAdd(projects, c)
              second == MembersAdd(first.projects, c)
          IN  /\ c.author \in Assignees(first.projects, c.link_url)
              /\ second.msg = MSG_ALREADY
              /\ ~second.save
              /\ second.projects = first.projects
    /\ (IsJoin(cur) /\ pc \in {"edit", "reply", "mark"}
          /\ cur.author \in Assignees(pre.projects, cur.link_url)) =>
              /\ pc # "edit"
              /\ msg = MSG_ALREADY
              /\ projects = pre.projects
              /\ page = pre.page /\ edits = pre.edits

\* Two comments with the same author and topic: the first joined, the second
\* was told it had already joined.
C10_Witness ==
    \E id1, id2 \in Ids :
        /\ id1 # id2
        /\ IsJoin(known[id1]) /\ known[id1] = known[id2]
        /\ replies[id1] = <<MSG_JOINED>>
        /\ replies[id2] = <<MSG_ALREADY>>

Interested(ps, url) ==
    IF HasUrl(ps, url) THEN ps[IndexOf(ps, url)].interested ELSE {}

SameRosters(ps, qs) ==
    \A url \in Urls : /\ Assignees(ps, url) = Assignees(qs, url)
                      /\ Interested(ps, url) = Interested(qs, url)

LeaveComments == {MkComment("c1", c) : c \in {x \in Contents : IsLeave(x)}}

\* C11: leave of a user who is not in the topic's assignees roster (the
\* topic may be unknown): Members.remove returns 'not joined', asks for no
\* page write and leaves every roster of every topic as it was; in the loop
\* such a leave is answered 'not joined' with rosters, page and edit count
\* as they were at delivery.
C11_LeaveAbsent ==
    /\ \A c \in LeaveComments :
          c.author \notin Assignees(projects, c.link_url) =>
              LET r == MembersRemove(projects, c)
              IN  /\ r.msg = MSG_NOT_JOINED
                  /\ ~r.save
                  /\ SameRosters(r.projects, projects)
    /\ (IsLeave(cur) /\ pc \in {"edit", "reply", "mark"}
          /\ cur.author \notin Assignees(pre.projects, cur.link_url)) =>
              /\ pc # "edit"
              /\ msg = MSG_NOT_JOINED
              /\ SameRosters(projects, pre.projects)
              /\ page = pre.page /\ edits = pre.edits

\* A leave for a topic the ledger had never seen was answered 'not joined'.
C11_Witness ==
    /\ IsLeave(cur) /\ pc = "mark"
    /\ ~HasUrl(pre.projects, cur.link_url)
    /\ replies[cur.id] = <<MSG_NOT_JOINED>>

IsHeading(line) == line[1] = "#"
HeadingUrl(line) == line[Len(line)]
Headings(content) == SelectSeq(content, IsHeading)
HeadingUrls(content) == {HeadingUrl(content[i]) : i \in {j \in 1..Len(content) : IsHeading(content[j])}}
NonEmptyUrls(ps) ==
    {ps[i].url : i \in {j \in 1..Len(ps) :
                            ps[j].assignees # {} \/ ps[j].interested # {}}}
LastOp == log[Len(log)]

\* C12: after any sequence of add, remove and add_interest the document
\* _save_projects renders, and the page it wrote, has exactly one heading for
\* each topic with a non-empty roster and none for any other topic.
C12_EmptyTopicsPruned ==
    pc = "ledger" =>
        /\ HeadingUrls(SaveProjects(projects)) = NonEmptyUrls(projects)
        /\ Len(Headings(SaveProjects(projects)))
               = Cardinality(NonEmptyUrls(projects))
        /\ HeadingUrls(page.content) = NonEmptyUrls(projects)

\* join(t, u) then leave(t, u) on an empty ledger: the page is empty and t is
\* still in memory.
C12_Witness ==
    /\ pc = "ledger" /\ origin.content = <<>> /\ Len(log) = 2
    /\ log[1].kind = "add" /\ log[2].kind = "remove"
    /\ log[1].comment = log[2].comment
    /\ page.content = <<>>
    /\ HasUrl(projects, cur.link_url)

\* C13: for every ledger reached by add, remove and add_interest, parsing
\* the rendered document succeeds, rendering the parsed ledger gives the same
\* document, and the parsed ledger has the topics with a non-empty roster,
\* with the same titles and rosters.
C13_RoundTrip ==
    pc = "ledger" =>
        LET doc == SaveProjects(projects) IN
        /\ ~LoadRaises(doc)
        /\ SaveProjects(LoadProjects(doc)) = doc
        /\ Range(LoadProjects(doc))
              = {projects[i] : i \in {j \in 1..Len(projects) :
                                         projects[j].url \in NonEmptyUrls(projects)}}

Perms(n) == {f \in [1..n -> 1..n] : \A i, j \in 1..n : f[i] = f[j] => i = j}

RECURSIVE ApplyLog(_, _)
ApplyLog(ps, ops) ==
    IF ops = <<>> THEN ps
    ELSE ApplyLog(ApplyOp(ps, Head(ops)).projects, Tail(ops))

TitleOf(line) == line[2]
TitlesInOrder(content) ==
    LET h == Headings(content) IN
    \A i \in 1..(Len(h) - 1) : Rank(TitleOf(h[i])) <= Rank(TitleOf(h[i + 1]))

\* C14: the rendered document depends only on the content of the ledger: a
\* ledger with the same topics, titles and rosters reached by the same calls
\* in another order renders to the same document, with topics in title order.
C14_DeterministicSerialization ==
    pc = "ledger" =>
        /\ TitlesInOrder(SaveProjects(projects))
        /\ \A f \in Perms(Len(log)) :
              LET other == ApplyLog(MembersInit(origin).projects,
                                    [i \in 1..Len(log) |-> log[f[i]]])
              IN  Range(other) = Range(projects)
                      => SaveProjects(other) = SaveProjects(projects)

\* C16: add and remove leave the interested roster of every topic as it was,
\* add_interest leaves every assignees roster as it was, and a call changes
\* at most the membership of its author in the rosters of its topic.
C16_IndependentRosters ==
    (pc = "ledger" /\ Len(log) > 0) =>
        /\ LastOp.kind \in {"add", "remove"} =>
              \A url \in Urls :
                  Interested(projects, url) = Interested(pre.projects, url)
        /\ LastOp.kind = "interest" =>
              \A url \in Urls :
                  Assignees(projects, url) = Assignees(pre.projects, url)
        /\ \A url \in Urls \ {cur.link_url} :
              /\ Assignees(projects, url) = Assignees(pre.projects, url)
              /\ Interested(projects, url) = Interested(pre.projects, url)
        /\ \A u \in Users \ {cur.author} :
              /\ u \in Assignees(projects, cur.link_url)
                    <=> u \in Assignees(pre.projects, cur.link_url)
              /\ u \in Interested(projects, cur.link_url)
                    <=> u \in Interested(pre.projects, cur.link_url)

\* A user expressed interest in a topic and was not joined by it, while
\* another call had joined a user to the same topic.
C16_Witness ==
    /\ pc = "ledger" /\ Len(log) > 0 /\ LastOp.kind = "interest"
    /\ msg = MSG_INTEREST_OK
    /\ cur.author \in Interested(projects, cur.link_url)
    /\ cur.author \notin Assignees(projects, cur.link_url)
    /\ Assignees(projects, cur.link_url) # {}

\* C17: when the page does not exist at construction it is created, with
\* empty content and an empty ledger; a first join(t, u) then leaves a
\* document of one heading for t and the one bullet of u.
C17_AbsentDocument ==
    (pc = "ledger" /\ ~origin.exists) =>
        /\ page.exists
        /\ log = <<>> => (projects = <<>> /\ page.content = <<>>)
        /\ (Len(log) = 1 /\ LastOp.kind = "add") =>
              page.content =
                  << <<"#">> \o TitleParts(cur.link_title) \o <<cur.link_url>>,
                     <<"*", cur.author>> >>

C17_Witness ==
    /\ pc = "ledger" /\ ~origin.exists
    /\ Len(log) = 1 /\ LastOp.kind = "add" /\ cur.author = "alice"
    /\ page.content = << <<"#", "A", "u1">>, <<"*", "alice">> >>

\* The tokens of a text: the maximal runs of symbols that are not whitespace
IsToken(t, i, j) ==
    /\ i <= j
    /\ \A n \in i..j : t[n] \notin Whitespace
    /\ (i = 1 \/ t[i - 1] \in Whitespace)
    /\ (j = Len(t) \/ t[j + 1] \in Whitespace)

Tokens(t) ==
    {SubSeq(t, i, j) : <<i, j>> \in {x \in (1..Len(t)) \X (1..Len(t)) :
                                         IsToken(t, x[1], x[2])}}

\* C15: for every text the parser returns exactly the keywords k for which
\* '!k' is a whole token of the text; so '!joining' and 'x!join' give no
\* match, two distinct commands one whitespace apart give both, and a
\* repeated command gives one element.
C15_CommandParser ==
    pc = "parsed" =>
        /\ found = {k \in AVAILABLE_COMMANDS : <<"!", k>> \in Tokens(text)}
        /\ text = <<"!", "join", "ing">> => found = {}
        /\ text = <<"ing", "!", "join">> => found = {}
        /\ text = <<"!", "join">> => found = {"join"}
        /\ text = <<"!", "join", " ", "!", "leave">> => found = {"join", "leave"}
        /\ text = <<"!", "join", "\n", "!", "join">> => found = {"join"}

C15_Witness ==
    /\ pc = "parsed"
    /\ text = <<"!", "join", " ", "!", "leave">>
    /\ found = {"join", "leave"}

Changed(m) == m \in {MSG_JOINED, MSG_REMOVED}

\* C18: a join or leave that changes the ledger mutates memory, then writes
\* the page once, then replies: while the write is pending nothing was
\* written or replied; when the 'joined' / 'removed' reply is pending or
\* posted exactly one write was made and the page holds (no longer holds) the
\* user under the topic; after a fault in the write no reply was posted.
C18_PersistBeforeReply ==
    /\ pc = "edit" =>
          /\ Changed(msg)
          /\ projects # pre.projects
          /\ edits = pre.edits /\ page = pre.page /\ replies = pre.replies
    /\ (pc \in {"reply", "mark"} /\ Changed(msg)) =>
          /\ edits = pre.edits + 1
          /\ page.content = SaveProjects(projects)
          /\ (msg = MSG_JOINED) <=>
                (cur.author \in Assignees(LoadProjects(page.content),
                                          cur.link_url))
          /\ pc = "reply" => replies = pre.replies
          /\ pc = "mark" =>
                replies = [pre.replies EXCEPT ![cur.id] = Append(@, msg)]
    /\ (pc = "sleep" /\ Changed(msg) /\ cur.id \notin seen_comments
          /\ edits = pre.edits) =>
          replies = pre.replies

\* A leave that changed the ledger was written and then answered 'removed'.
C18_Witness ==
    /\ pc = "mark" /\ msg = MSG_REMOVED
    /\ replies[cur.id] = <<MSG_REMOVED>>
    /\ cur.author \in Assignees(pre.projects, cur.link_url)

\* C19: within a run an entry of the ledger keeps its url and its title at
\* every step, whatever title later comments carry; a new entry takes the url
\* and the title of the comment being handled; every entry has a title.
C19_TitleCapture ==
    [][ runs' = runs =>
          /\ Len(projects') >= Len(projects)
          /\ \A i \in 1..Len(projects) :
                /\ projects'[i].url = projects[i].url
                /\ projects'[i].title = projects[i].title
          /\ \A i \in (Len(projects) + 1)..Len(projects') :
                /\ projects'[i].url = cur.link_url
                /\ projects'[i].title = cur.link_title
                /\ projects'[i].title \in Titles ]_vars

\* A comment carrying another title than the one captured for its topic was
\* handled, and the entry kept the captured title.
C19_Witness ==
    /\ pc = "mark" /\ (IsJoin(cur) \/ IsLeave(cur))
    /\ HasUrl(pre.projects, cur.link_url)
    /\ projects[IndexOf(projects, cur.link_url)].title # cur.link_title

IsStatic(comment) ==
    FindAll(comment.body) \in {{"help"}, {"interested"}, {"uninterested"}}

StaticMsg(comment) ==
    IF FindAll(comment.body) = {"help"} THEN MSG_HELP
    ELSE IF FindAll(comment.body) = {"interested"} THEN MSG_INTERESTED
    ELSE MSG_UNINTERESTED

\* C20: a comment whose only command is help, interested or uninterested
\* gets exactly one reply, its fixed text, and leaves ledger, page and edit
\* count as they were at delivery; whenever ledger or page differ from what
\* they were at delivery the comment is a join or a leave.
C20_StaticReplies ==
    /\ (IsStatic(cur) /\ pc \in {"edit", "reply", "mark"}) =>
          /\ pc # "edit"
          /\ msg = StaticMsg(cur)
          /\ projects = pre.projects /\ page = pre.page /\ edits = pre.edits
          /\ pc = "reply" => replies = pre.replies
          /\ pc = "mark" =>
                replies = [pre.replies EXCEPT ![cur.id] = Append(@, msg)]
    /\ (pc \in InLoop /\ (projects # pre.projects \/ page # pre.page)) =>
          (IsJoin(cur) \/ IsLeave(cur))

C20_Witness ==
    /\ FindAll(cur.body) = {"interested"} /\ pc = "mark"
    /\ replies[cur.id] = <<MSG_INTERESTED>>

TypeOK ==
    /\ pc \in {"stream", "handle", "edit", "reply", "mark", "sleep", "save",
               "done", "crashed", "initfail"}
    /\ running \in BOOLEAN
    /\ seen_comments \subseteq (Ids \cup {"c1", "c2", "c3"})
    /\ delivered \in 0..MaxDeliveries
    /\ faults \in 0..MaxFaults
    /\ runs \in 1..MaxRuns
====
